---- MODULE Spec2Model ----
(***************************************************************************)
(* Model of ts_process/process_timeseries.py: the command line parser,     *)
(* the processing pipeline (process) and the synchronization of the        *)
(* recorded and simulated stations (synchronize_all_stations).             *)
(*                                                                         *)
(* Conventions.                                                            *)
(*  - An optional Python value is a sequence: << >> is None (or a missing  *)
(*    dictionary key), <<v>> is the value v.                               *)
(*  - Times are whole ticks (one tick is one second); a sampling interval  *)
(*    dt is a whole number of ticks, so t_diff / dt is in general not an   *)
(*    integer and int() truncates it.                                      *)
(*  - A timeseries is [dt, samples, ops]: ops is the list of cut and       *)
(*    zero-pad operations applied to it, <<kind, flag, t_diff, num>>.      *)
(*  - A station is a sequence of three timeseries.                         *)
(*  - Station 0 is the recorded station, 1..n the simulated ones.          *)
(***************************************************************************)
EXTENDS Integers, Sequences, FiniteSets, TLC

\* ---------------------------------------------------------------- bounds
MaxStations == 2
\* sample counts of the input files (a recording always outlasts the longest
\* front cut tried, which takes three samples)
MinSamples == 4
MaxSamples == 5
\* sampling intervals of the input files, and the --dt of the command line
RawDts == {2, 4}
TargetDt == 2
\* recording stamps, earthquake times and leading times tried
Stamps == {<<4, 59, 57>>, <<5, 0, 0>>, <<5, 0, 3>>}
EqTimes == {<<5, 0, 0>>, <<5, 0, 1>>}
\* (--leading takes any float: a negative one puts the simulation start after
\* the earthquake time)
Leadings == {-3, 0, 3}

\* a token that float() rejects (it also sorts after every digit as a string)
BadTok == 99

VARIABLES
    pc,            \* position in process_main
    status,        \* "running", "done", "SystemExit", "KeyError", "NameError", "FilterError"
    args,          \* the command line
    input,         \* what the input files hold
    params,        \* the dictionary parse_arguments builds
    parse_errors,  \* [ERROR] messages parse_arguments has printed
    obs_data,      \* << >> or <<station>>
    stations,      \* sequence of simulated stations
    stamp,         \* << >> or <<h, m, s>>
    log,           \* stages of process that have run, in order
    target_time,   \* target duration computed by synchronize_all_stations
    front_cases,   \* branch of the front alignment taken for each channel reached
    filtered,      \* ids of the stations whose channels have been filtered
    written,       \* ids of the stations handed to write_bbp
    plotted        \* compare_timeseries: comparison_plot has been called

vars == <<pc, status, args, input, params, parse_errors, obs_data, stations,
          stamp, log, target_time, front_cases, filtered, written, plotted>>

Channels == 1..3

\* ------------------------------------------------------- small helpers
Min(a, b) == IF a <= b THEN a ELSE b
Max(a, b) == IF a >= b THEN a ELSE b
IsNone(x) == x = << >>
Some(x) == <<x>>
Val(x) == x[1]

Timeseries(dt, n) == [dt |-> dt, samples |-> n, ops |-> << >>]
MkStation(dt, n) == [i \in Channels |-> Timeseries(dt, n)]

\* hh*3600 + mm*60 + ss
SecondsOfDay(t) == t[1] * 3600 + t[2] * 60 + t[3]

\* ------------------------------------------- names bound in the module
\* names the import statements of process_timeseries.py bind
ImportedNames ==
    {"write_bbp", "read_stamp", "read_files",
     "rotate_timeseries", "process_station_dt", "check_station_data",
     "filter_timeseries", "seism_cutting"}

\* a call of a name the module never binds raises NameError
NameDefined(name) == name \in ImportedNames


\* ------------------------------------------------ ts_library operations
\* int(t_diff / dt): the quotient truncated towards zero.  t_diff is the
\* result of floating point arithmetic, so a quotient that is mathematically
\* the integer q may come out just below q and truncate to q - 1
\* (int((0.01*116 - 0.01*100) / 0.01) is 15); slack is 1 where that happens.
TruncDiv(t_diff, dt, slack) ==
    IF t_diff < 0 THEN 0 - ((0 - t_diff) \div dt)
    ELSE IF t_diff > 0 /\ t_diff % dt = 0 THEN (t_diff \div dt) - slack
    ELSE t_diff \div dt

\* seism_cutting(flag, t_diff, m, timeseries): removes int(t_diff/dt) samples
\* at the front or at the end; a cut that would leave no sample is refused
\* and the timeseries is returned as it was.
seism_cutting(flag, t_diff, ts, slack) ==
    LET num == TruncDiv(t_diff, ts.dt, slack)
        cut == IF num >= ts.samples \/ num < 0 THEN 0 ELSE num
    IN  [ts EXCEPT !.samples = @ - cut,
                   !.ops = Append(@, <<"cut", flag, t_diff, cut>>)]

\* seism_appendzeros(flag, t_diff, m, timeseries): adds int(t_diff/dt) zero
\* samples at the front or at the end.
seism_appendzeros(flag, t_diff, ts, slack) ==
    LET num == TruncDiv(t_diff, ts.dt, slack)
        pad == IF num < 0 THEN 0 ELSE num
    IN  [ts EXCEPT !.samples = @ + pad,
                   !.ops = Append(@, <<"pad", flag, t_diff, pad>>)]

\* round(a / b), a >= 0, b > 0
Round(a, b) == (2 * a + b) \div (2 * b)

\* process_station_dt(station, targetdt, decifmax): every channel is brought
\* to the target dt; samples is recomputed as round(duration / target_dt).
process_station_dt(station, targetdt) ==
    [i \in Channels |->
        IF station[i].dt = targetdt THEN station[i]
        ELSE [station[i] EXCEPT !.dt = targetdt,
                                !.samples = Round(station[i].dt * @, targetdt)]]

\* rotate_timeseries(station, azimuth): rotates the horizontal channels;
\* dt and samples of every channel are kept.
rotate_timeseries(station, azimuth) == station

\* check_station_data(station): fails on non-finite values and on channels
\* whose sample counts differ.
check_station_data(station, corrupt) ==
    /\ ~corrupt
    /\ \A i \in Channels : station[i].samples = station[1].samples

\* -------------------------------------------------------------- inputs
\* --freqs after replace(',', ' ').split(), or << >> when the option is absent
FreqArgs ==
    {<< >>, << << >> >>, <<<<1>>>>, <<<<1, 2>>>>, <<<<2, 1>>>>, <<<<1, 2, 3>>>>,
     <<<<BadTok>>>>}
\* --eq-time after split(':'), or << >> when the option is absent
EqTimeArgs ==
    {<< >>, <<<<5, 0>>>>, <<<<5, BadTok, 0>>>>} \cup {Some(t) : t \in EqTimes}

RawStations == RawDts \X (MinSamples..MaxSamples)

\* the command lines whose every option is present and well formed
GoodArgs ==
    [obs_file    : BOOLEAN,
     nfiles      : 1..MaxStations,
     outdir      : {TRUE},
     frequencies : {<<<<1>>>>, <<<<1, 2>>>>, <<<<1, 2, 3>>>>},
     decifmax    : {TRUE},
     targetdt    : {Some(TargetDt)},
     eq_time     : {Some(t) : t \in EqTimes},
     leading     : {Some(l) : l \in Leadings}]

\* command lines with options missing or malformed
AnyArgs ==
    [obs_file    : BOOLEAN,
     nfiles      : 0..MaxStations,
     outdir      : BOOLEAN,
     frequencies : FreqArgs,
     decifmax    : BOOLEAN,
     targetdt    : {<< >>, Some(TargetDt)},
     eq_time     : EqTimeArgs,
     leading     : {<< >>, Some(0)}]

\* what the files of a command line hold: the recorded station and its stamp
\* (when --obs is given), one simulated station per input file, the stations
\* whose data holds a non-finite value, the stations on whose cuts the
\* floating point quotient truncates one short
Inputs(a) ==
    LET ids == (IF a.obs_file THEN {0} ELSE {}) \cup 1..a.nfiles
    IN  [obs     : IF a.obs_file THEN RawStations ELSE {<<TargetDt, MinSamples>>},
         stamp   : IF a.obs_file THEN {<< >>} \cup {Some(t) : t \in Stamps}
                   ELSE {<< >>},
         sims    : [1..a.nfiles -> RawStations],
         corrupt : {{}} \cup {{k} : k \in ids},
         trunc   : {{}} \cup {{k} : k \in ids}]

\* one fixed set of files for the command lines of AnyArgs
PlainInput(a) ==
    [obs     |-> <<TargetDt, MaxSamples>>,
     stamp   |-> IF a.obs_file THEN Some(<<4, 59, 57>>) ELSE << >>,
     sims    |-> [k \in 1..a.nfiles |-> <<TargetDt, MinSamples>>],
     corrupt |-> {},
     trunc   |-> {}]

NoParams ==
    [outdir |-> << >>, frequencies |-> << >>, decifmax |-> << >>,
     targetdt |-> << >>, azimuth |-> << >>, eq_time |-> << >>,
     leading |-> << >>]

Init ==
    /\ pc = "parse_arguments"
    /\ status = "running"
    /\ \/ /\ args \in GoodArgs
          /\ input \in Inputs(args)
       \/ /\ args \in AnyArgs
          /\ input = PlainInput(args)
    /\ params = NoParams
    /\ parse_errors = {}
    /\ obs_data = << >>
    /\ stations = << >>
    /\ stamp = << >>
    /\ log = << >>
    /\ target_time = << >>
    /\ front_cases = << >>
    /\ filtered = {}
    /\ written = {}
    /\ plotted = FALSE

\* ------------------------------------------------ faulty variants of StageAfter
\* the stations are filtered before they are validated
StageAfter_FiltersFirst(stage) ==
    CASE stage = "parse_arguments" -> "read_files"
      [] stage = "read_files"      -> "rotate"
      [] stage = "rotate"          -> "resample"
      [] stage = "resample"        -> "read_stamp"
      [] stage = "read_stamp"      -> "sync_front"
      [] stage = "sync_front"      -> "sync_end"
      [] stage = "sync_end"        -> "sync_scale"
      [] stage = "sync_scale"      -> "check_samples"
      [] stage = "check_samples"   -> "filter"
      [] stage = "filter"          -> "check_data"
      [] stage = "check_data"      -> "write"
      [] OTHER                     -> "done"

\* the sample counts are not compared after synchronizing
StageAfter_SkipsSampleCheck(stage) ==
    CASE stage = "parse_arguments" -> "read_files"
      [] stage = "read_files"      -> "rotate"
      [] stage = "rotate"          -> "resample"
      [] stage = "resample"        -> "read_stamp"
      [] stage = "read_stamp"      -> "sync_front"
      [] stage = "sync_front"      -> "sync_end"
      [] stage = "sync_end"        -> "sync_scale"
      [] stage = "sync_scale"      -> "check_data"
      [] stage = "check_data"      -> "filter"
      [] stage = "filter"          -> "write"
      [] OTHER                     -> "done"

\* ------------------------------------------------ the order of the stages
\* process_main (lines 311-328), process (lines 155-208) and
\* synchronize_all_stations (lines 56-144) are straight-line code: the
\* statement that follows each stage
StageAfter(stage) ==
    CASE stage = "parse_arguments" -> "read_files"
      [] stage = "read_files"      -> "rotate"
      [] stage = "rotate"          -> "resample"
      [] stage = "resample"        -> "read_stamp"
      [] stage = "read_stamp"      -> "sync_front"
      [] stage = "sync_front"      -> "sync_end"
      [] stage = "sync_end"        -> "sync_scale"
      [] stage = "sync_scale"      -> "check_samples"
      [] stage = "check_samples"   -> "check_data"
      [] stage = "check_data"      -> "filter"
      [] stage = "filter"          -> "write"
      [] OTHER                     -> "done"

\* ------------------------------------------------------ parse_arguments
HasBadTok(tokens) == \E i \in 1..Len(tokens) : tokens[i] = BadTok

\* line 245: fewer than two timeseries to process
TooFewFiles(a) == a.nfiles < 1 \/ (a.nfiles = 1 /\ ~a.obs_file)

\* lines 261-263: --freqs given but empty
EmptyFrequencies(a) == ~IsNone(a.frequencies) /\ Len(Val(a.frequencies)) < 1

\* lines 290-297: --eq-time with fewer than three tokens or a non-numeric one
BadEqTime(a) ==
    /\ ~IsNone(a.eq_time)
    /\ (Len(Val(a.eq_time)) < 3 \/ HasBadTok(Val(a.eq_time)))

\* the checks of parse_arguments that are followed by sys.exit(-1)
ParseExits(a) == TooFewFiles(a) \/ EmptyFrequencies(a) \/ BadEqTime(a)

\* messages of lines 252-271 (output directory, frequencies)
FrequencyErrors(a) ==
    (IF ~a.outdir THEN {"outdir"} ELSE {})
    \cup (IF IsNone(a.frequencies) THEN {"frequencies"} ELSE {})
    \cup (IF ~IsNone(a.frequencies)
             /\ (Len(Val(a.frequencies)) < 1 \/ HasBadTok(Val(a.frequencies)))
          THEN {"invalid frequencies"} ELSE {})
    \cup (IF ~IsNone(a.frequencies)
             /\ \E i \in 1..(Len(Val(a.frequencies)) - 1) :
                    Val(a.frequencies)[i] >= Val(a.frequencies)[i + 1]
          THEN {"invalid sequence"} ELSE {})

\* messages of lines 273-297 (decimation frequency, target dt, earthquake time)
EqTimeErrors(a) ==
    (IF ~a.decifmax THEN {"decifmax"} ELSE {})
    \cup (IF IsNone(a.targetdt) THEN {"targetdt"} ELSE {})
    \cup (IF IsNone(a.eq_time) THEN {"eq_time"} ELSE {})
    \cup (IF BadEqTime(a) THEN {"invalid time format"} ELSE {})

\* messages of lines 299-300 (leading time)
LeadingErrors(a) == IF IsNone(a.leading) THEN {"leading"} ELSE {}

\* every [ERROR] message parse_arguments prints, up to the point it stops
PrintedErrors(a) ==
    IF TooFewFiles(a) THEN {"files"}
    ELSE IF EmptyFrequencies(a) THEN FrequencyErrors(a)
    ELSE IF BadEqTime(a) THEN FrequencyErrors(a) \cup EqTimeErrors(a)
    ELSE FrequencyErrors(a) \cup EqTimeErrors(a) \cup LeadingErrors(a)

\* the dictionary returned on line 304: a key is set only in the else branch
\* of its check
ParsedParams(a) ==
    [outdir      |-> IF a.outdir THEN Some(TRUE) ELSE << >>,
     frequencies |-> a.frequencies,
     decifmax    |-> IF a.decifmax THEN Some(TRUE) ELSE << >>,
     targetdt    |-> a.targetdt,
     azimuth     |-> << >>,
     eq_time     |-> a.eq_time,
     leading     |-> a.leading]

ParseArguments ==
    /\ pc = "parse_arguments" /\ status = "running"
    /\ parse_errors' = PrintedErrors(args)
    /\ IF ParseExits(args) THEN
            /\ status' = "SystemExit"
            /\ UNCHANGED <<pc, params>>
       ELSE /\ pc' = StageAfter("parse_arguments")
            /\ params' = ParsedParams(args)
            /\ UNCHANGED status
    /\ UNCHANGED <<args, input, obs_data, stations, stamp, log, target_time,
                   filtered, written>>
    /\ UNCHANGED <<front_cases, plotted>>

\* ------------------------------------------------------------- process
HasObs == ~IsNone(obs_data)
StationIds == (IF HasObs THEN {0} ELSE {}) \cup (1..Len(stations))
Slack(k) == IF k \in input.trunc THEN 1 ELSE 0
Corrupt(k) == k \in input.corrupt
Duration(ts) == ts.dt * ts.samples

\* read_files(obs_file, input_files): obs_data is None without --obs
ReadFiles ==
    /\ pc = "read_files" /\ status = "running"
    /\ obs_data' = IF args.obs_file
                   THEN Some(MkStation(input.obs[1], input.obs[2])) ELSE << >>
    /\ stations' = [k \in 1..args.nfiles |->
                        MkStation(input.sims[k][1], input.sims[k][2])]
    /\ pc' = StageAfter("read_files")
    /\ UNCHANGED <<status, args, input, params, parse_errors, stamp, log,
                   target_time, filtered, written>>
    /\ UNCHANGED <<front_cases, plotted>>

\* lines 155-157
Rotate ==
    /\ pc = "rotate" /\ status = "running"
    /\ stations' = [k \in 1..Len(stations) |->
                        rotate_timeseries(stations[k], params.azimuth)]
    /\ log' = Append(log, "rotate")
    /\ pc' = StageAfter("rotate")
    /\ UNCHANGED <<status, args, input, params, parse_errors, obs_data, stamp,
                   target_time, filtered, written>>
    /\ UNCHANGED <<front_cases, plotted>>

\* lines 159-166; params['targetdt'] and params['decifmax'] raise KeyError
\* when parse_arguments did not set them
Resample ==
    /\ pc = "resample" /\ status = "running"
    /\ IF IsNone(params.targetdt) \/ IsNone(params.decifmax) THEN
            /\ status' = "KeyError"
            /\ UNCHANGED <<pc, obs_data, stations, log>>
       ELSE /\ obs_data' = IF HasObs
                           THEN Some(process_station_dt(Val(obs_data),
                                                        Val(params.targetdt)))
                           ELSE obs_data
            /\ stations' = [k \in 1..Len(stations) |->
                                process_station_dt(stations[k],
                                                   Val(params.targetdt))]
            /\ log' = Append(log, "resample")
            /\ pc' = StageAfter("resample")
            /\ UNCHANGED status
    /\ UNCHANGED <<args, input, params, parse_errors, stamp, target_time,
                   filtered, written>>
    /\ UNCHANGED <<front_cases, plotted>>

\* lines 168-171: read_stamp is called only with recorded data
ReadStamp ==
    /\ pc = "read_stamp" /\ status = "running"
    /\ stamp' = IF HasObs THEN input.stamp ELSE << >>
    /\ log' = IF HasObs THEN Append(log, "read_stamp") ELSE log
    /\ pc' = StageAfter("read_stamp")
    /\ UNCHANGED <<status, args, input, params, parse_errors, obs_data,
                   stations, target_time, filtered, written>>
    /\ UNCHANGED <<front_cases, plotted>>

\* ------------------------------------------- synchronize_all_stations
\* faulty variant: a recording that starts with the simulation is cut
FrontCase_CutsAtSimStart(start, sim_start, eq_time) ==
    IF start <= sim_start THEN 1
    ELSE IF start > eq_time THEN 2
    ELSE 3

\* lines 64, 68, 75: which branch of the front alignment is taken
FrontCase(start, sim_start, eq_time) ==
    IF start < sim_start THEN 1
    ELSE IF start > eq_time THEN 2
    ELSE 3

\* faulty variant: the first branch cuts up to the earthquake time
FrontObs_CutsToEqTime(obs, start, sim_start, eq_time, slack) ==
    [i \in Channels |->
        CASE start < sim_start ->
                seism_cutting("front", eq_time - start, obs[i], slack)
          [] start > eq_time ->
                seism_appendzeros("front", start - eq_time, obs[i], slack)
          [] OTHER ->
                seism_appendzeros("front", start - sim_start, obs[i], slack)]

\* lines 66-67, 70-71, 77-78: the recorded station after front alignment
FrontObs(obs, start, sim_start, eq_time, slack) ==
    [i \in Channels |->
        CASE FrontCase(start, sim_start, eq_time) = 1 ->
                seism_cutting("front", sim_start - start, obs[i], slack)
          [] FrontCase(start, sim_start, eq_time) = 2 ->
                seism_appendzeros("front", start - eq_time, obs[i], slack)
          [] OTHER ->
                seism_appendzeros("front", start - sim_start, obs[i], slack)]

\* lines 72-74: a simulated station after front alignment
FrontSim(station, start, sim_start, eq_time, slack) ==
    [i \in Channels |->
        IF FrontCase(start, sim_start, eq_time) = 2
        THEN seism_cutting("front", eq_time - sim_start, station[i], slack)
        ELSE station[i]]

\* the front alignment calls seism_appendzeros in its second and third branch
FrontNeedsAppendzeros(start, sim_start, eq_time) ==
    FrontCase(start, sim_start, eq_time) \in {2, 3}

\* lines 62-78: the branch taken for each channel the loop reaches; the loop
\* ends at channel 0 when the call it makes there raises NameError
FrontCasesTaken(start, sim_start, eq_time, reached) ==
    [i \in 1..reached |-> FrontCase(start, sim_start, eq_time)]

\* lines 56-78 (and the arguments of the call, lines 174-178)
SyncFront ==
    /\ pc = "sync_front" /\ status = "running"
    /\ IF IsNone(params.eq_time) \/ IsNone(params.leading) THEN
            /\ status' = "KeyError"
            /\ UNCHANGED <<pc, obs_data, stations, log, front_cases>>
       ELSE /\ log' = Append(log, "synchronize")
            /\ IF ~IsNone(stamp) /\ HasObs THEN
                    LET start == SecondsOfDay(Val(stamp))
                        eq_time == SecondsOfDay(Val(params.eq_time))
                        sim_start == eq_time - Val(params.leading)
                    IN  IF FrontNeedsAppendzeros(start, sim_start, eq_time)
                           /\ ~NameDefined("seism_appendzeros")
                        THEN /\ status' = "NameError"
                             /\ front_cases' = FrontCasesTaken(start, sim_start,
                                                               eq_time, 1)
                             /\ UNCHANGED <<pc, obs_data, stations>>
                        ELSE /\ obs_data' = Some(FrontObs(Val(obs_data), start,
                                                 sim_start, eq_time, Slack(0)))
                             /\ stations' = [k \in 1..Len(stations) |->
                                                FrontSim(stations[k], start,
                                                   sim_start, eq_time, Slack(k))]
                             /\ front_cases' = FrontCasesTaken(start, sim_start,
                                                               eq_time, 3)
                             /\ pc' = StageAfter("sync_front")
                             /\ UNCHANGED status
               ELSE /\ pc' = StageAfter("sync_front")
                    /\ UNCHANGED <<status, obs_data, stations, front_cases>>
    /\ UNCHANGED <<args, input, params, parse_errors, stamp, target_time,
                   filtered, written, plotted>>

RECURSIVE MinDuration(_, _)
\* lines 92-99: the minimum over the simulated stations k..Len(sims)
MinDuration(sims, k) ==
    IF k = Len(sims) THEN Duration(sims[k][1])
    ELSE Min(Duration(sims[k][1]), MinDuration(sims, k + 1))

\* faulty variant: the recorded station is left out of the minimum
TargetTime_IgnoresObs(obs, sims) == MinDuration(sims, 1)

\* lines 80-99: the target duration
TargetTime(obs, sims) ==
    IF IsNone(obs) THEN MinDuration(sims, 1)
    ELSE Min(Duration(Val(obs)[1]), MinDuration(sims, 1))

\* lines 102-106: the duration of channel 0 decides for the three channels
EndObs(obs, target, slack) ==
    [i \in Channels |->
        IF Duration(obs[1]) > target
        THEN seism_cutting("end", Duration(obs[1]) - target, obs[i], slack)
        ELSE obs[i]]

\* faulty variant: the comparison of line 116 is turned round
EndSim_KeepsExcess(station, target, slack) ==
    [i \in Channels |->
        IF Duration(station[i]) < target
        THEN seism_cutting("end", Duration(station[i]) - target, station[i],
                           slack)
        ELSE station[i]]

\* lines 111-118
EndSim(station, target, slack) ==
    [i \in Channels |->
        IF Duration(station[i]) > target
        THEN seism_cutting("end", Duration(station[i]) - target, station[i],
                           slack)
        ELSE station[i]]

\* lines 80-118
SyncEnd ==
    /\ pc = "sync_end" /\ status = "running"
    /\ LET target == TargetTime(obs_data, stations)
       IN  /\ target_time' = Some(target)
           /\ obs_data' = IF HasObs
                          THEN Some(EndObs(Val(obs_data), target, Slack(0)))
                          ELSE obs_data
           /\ stations' = [k \in 1..Len(stations) |->
                               EndSim(stations[k], target, Slack(k))]
    /\ pc' = StageAfter("sync_end")
    /\ UNCHANGED <<status, args, input, params, parse_errors, stamp, log,
                   filtered, written>>
    /\ UNCHANGED <<front_cases, plotted>>

RECURSIVE MaxSamplesOf(_, _)
\* lines 124-129: the maximum over the simulated stations k..Len(sims)
MaxSamplesOf(sims, k) ==
    IF k = Len(sims) THEN sims[k][1].samples
    ELSE Max(sims[k][1].samples, MaxSamplesOf(sims, k + 1))

\* lines 121-129
TotalSamples(obs, sims) ==
    IF IsNone(obs) THEN MaxSamplesOf(sims, 1)
    ELSE Max(Val(obs)[1].samples, MaxSamplesOf(sims, 1))

\* lines 134, 140: the channel is one sample short of total_samples
OneShort(ts, total) == ts.samples = total - 1

\* lines 133-136, 139-142
ScaleStation(station, total) ==
    [i \in Channels |->
        IF OneShort(station[i], total)
        THEN seism_appendzeros("end", station[i].dt, station[i], 0)
        ELSE station[i]]

\* some channel of some station is one sample short
AnyOneShort(obs, sims, total) ==
    \/ ~IsNone(obs) /\ \E i \in Channels : OneShort(Val(obs)[i], total)
    \/ \E k \in 1..Len(sims) : \E i \in Channels : OneShort(sims[k][i], total)

\* lines 120-144
SyncScale ==
    /\ pc = "sync_scale" /\ status = "running"
    /\ LET total == TotalSamples(obs_data, stations)
       IN  IF AnyOneShort(obs_data, stations, total)
              /\ ~NameDefined("seism_appendzeros")
           THEN /\ status' = "NameError"
                /\ UNCHANGED <<pc, obs_data, stations>>
           ELSE /\ obs_data' = IF HasObs
                               THEN Some(ScaleStation(Val(obs_data), total))
                               ELSE obs_data
                /\ stations' = [k \in 1..Len(stations) |->
                                    ScaleStation(stations[k], total)]
                /\ pc' = StageAfter("sync_scale")
                /\ UNCHANGED status
    /\ UNCHANGED <<args, input, params, parse_errors, stamp, log, target_time,
                   filtered, written>>
    /\ UNCHANGED <<front_cases, plotted>>

\* ------------------------------------------ process, after synchronizing
\* lines 181-184: the sample count the stations are compared with
NumSamples(obs, sims) ==
    IF ~IsNone(obs) THEN Val(obs)[1].samples ELSE sims[1][1].samples

\* lines 186-187: some simulated station differs in channel 0
SamplesDiffer(obs, sims) ==
    \E k \in 1..Len(sims) : sims[k][1].samples # NumSamples(obs, sims)

\* lines 180-190
CheckSamples ==
    /\ pc = "check_samples" /\ status = "running"
    /\ log' = Append(log, "check_samples")
    /\ IF SamplesDiffer(obs_data, stations)
       THEN status' = "SystemExit" /\ UNCHANGED pc
       ELSE pc' = StageAfter("check_samples") /\ UNCHANGED status
    /\ UNCHANGED <<args, input, params, parse_errors, obs_data, stations,
                   stamp, target_time, filtered, written>>
    /\ UNCHANGED <<front_cases, plotted>>

\* lines 193-200: some station fails check_station_data
DataHasErrors(obs, sims) ==
    \/ ~IsNone(obs) /\ ~check_station_data(Val(obs), Corrupt(0))
    \/ \E k \in 1..Len(sims) : ~check_station_data(sims[k], Corrupt(k))

\* lines 192-200
CheckData ==
    /\ pc = "check_data" /\ status = "running"
    /\ log' = Append(log, "check_data")
    /\ IF DataHasErrors(obs_data, stations)
       THEN status' = "SystemExit" /\ UNCHANGED pc
       ELSE pc' = StageAfter("check_data") /\ UNCHANGED status
    /\ UNCHANGED <<args, input, params, parse_errors, obs_data, stations,
                   stamp, target_time, filtered, written>>
    /\ UNCHANGED <<front_cases, plotted>>

\* faulty variant: the else branch of filter_data prints and goes on
FilterDataExits_Never(frequencies) == FALSE

\* filter_data, lines 32-42: one or two frequencies, or sys.exit(-1)
FilterDataExits(frequencies) == Len(frequencies) \notin {1, 2}

\* filter_timeseries rejects cutoffs that are not numbers and a band whose
\* lower cutoff is not below the upper one
filter_timeseries_fails(frequencies) ==
    \/ HasBadTok(frequencies)
    \/ Len(frequencies) = 2 /\ frequencies[1] >= frequencies[2]

\* lines 202-208; params['frequencies'] raises KeyError when it was not set
Filter ==
    /\ pc = "filter" /\ status = "running"
    /\ log' = Append(log, "filter")
    /\ IF IsNone(params.frequencies) THEN
            status' = "KeyError" /\ UNCHANGED <<pc, filtered>>
       ELSE IF FilterDataExits(Val(params.frequencies)) THEN
            status' = "SystemExit" /\ UNCHANGED <<pc, filtered>>
       ELSE IF filter_timeseries_fails(Val(params.frequencies)) THEN
            status' = "FilterError" /\ UNCHANGED <<pc, filtered>>
       ELSE /\ filtered' = StationIds
            /\ pc' = StageAfter("filter")
            /\ UNCHANGED status
    /\ UNCHANGED <<args, input, params, parse_errors, obs_data, stations,
                   stamp, target_time, written>>
    /\ UNCHANGED <<front_cases, plotted>>

\* process_main, lines 319-328; params['outdir'] raises KeyError when it was
\* not set, before the first call of write_bbp
Write ==
    /\ pc = "write" /\ status = "running"
    /\ IF IsNone(params.outdir) THEN
            status' = "KeyError" /\ UNCHANGED <<pc, written>>
       ELSE /\ written' = StationIds
            /\ pc' = StageAfter("write")
            /\ status' = "done"
    /\ UNCHANGED <<args, input, params, parse_errors, obs_data, stations,
                   stamp, log, target_time, filtered>>
    /\ UNCHANGED <<front_cases, plotted>>

Next ==
    \/ ParseArguments
    \/ ReadFiles
    \/ Rotate
    \/ Resample
    \/ ReadStamp
    \/ SyncFront
    \/ SyncEnd
    \/ SyncScale
    \/ CheckSamples
    \/ CheckData
    \/ Filter
    \/ Write

Spec == Init /\ [][Next]_vars

\* ================================================= compare_timeseries.py
\* The plot ranges and the filter frequencies are in tenths (0.1 is 1).
\* defaults of lines 102-113
DefaultXmin == 0
DefaultXmax == 300
DefaultXfmin == 1
DefaultXfmax == 50
DefaultTmin == 1
DefaultTmax == 100

\* values tried for --xmin, --xmax, --xfmin, --xfmax, --tmin, --tmax, --lowf
\* and --highf
RangeValues == {1, 400}
OptionalRange == {<< >>} \cup {Some(v) : v \in RangeValues}

CompareArgs ==
    [nfiles : 1..MaxStations,
     xmin : OptionalRange, xmax : OptionalRange,
     xfmin : OptionalRange, xfmax : OptionalRange,
     tmin : OptionalRange, tmax : OptionalRange,
     lowf : OptionalRange, highf : OptionalRange]

\* names the import statements of compare_timeseries.py bind (lines 35-45)
CompareImportedNames ==
    {"division", "print_function", "os", "argparse", "mpl", "read_file",
     "calculate_distance", "filter_timeseries", "comparison_plot"}

CompareNameDefined(name) == name \in CompareImportedNames

\* lines 102-113: an option that was not given takes its default
OrDefault(option, default) == IF IsNone(option) THEN default ELSE Val(option)

\* lines 114-126: the first range check that fails, << >> when none does
RangeErrors(a) ==
    IF OrDefault(a.xmin, DefaultXmin) >= OrDefault(a.xmax, DefaultXmax)
    THEN <<"xmin">>
    ELSE IF OrDefault(a.xfmin, DefaultXfmin) >= OrDefault(a.xfmax, DefaultXfmax)
    THEN <<"xfmin">>
    ELSE IF OrDefault(a.tmin, DefaultTmin) >= OrDefault(a.tmax, DefaultTmax)
    THEN <<"tmin">>
    ELSE IF ~IsNone(a.lowf) /\ ~IsNone(a.highf) /\ Val(a.lowf) >= Val(a.highf)
    THEN <<"lowf">>
    ELSE << >>

\* the variables of process_timeseries.py, which compare_timeseries.py leaves
ProcessIdle ==
    /\ input = PlainInput([obs_file |-> FALSE, nfiles |-> 0])
    /\ params = NoParams
    /\ obs_data = << >>
    /\ stamp = << >>
    /\ log = << >>
    /\ target_time = << >>
    /\ front_cases = << >>
    /\ written = {}

InitCompare ==
    /\ pc = "cmp_parse_arguments"
    /\ status = "running"
    /\ args \in CompareArgs
    /\ parse_errors = {}
    /\ stations = << >>
    /\ filtered = {}
    /\ plotted = FALSE
    /\ ProcessIdle

\* parse_arguments, lines 47-128: the message of the failing check is printed
\* and sys.exit(-1) is evaluated; sys is a name the module never binds
CompareParseArguments ==
    /\ pc = "cmp_parse_arguments" /\ status = "running"
    /\ IF RangeErrors(args) # << >> THEN
            /\ parse_errors' = {RangeErrors(args)[1]}
            /\ status' = IF CompareNameDefined("sys") THEN "SystemExit"
                         ELSE "NameError"
            /\ UNCHANGED pc
       ELSE /\ pc' = "cmp_title"
            /\ UNCHANGED <<status, parse_errors>>
    /\ UNCHANGED <<args, input, params, obs_data, stations, stamp, log,
                   target_time, front_cases, filtered, written, plotted>>

\* compare_timeseries_main, lines 167-221: the frequencies label and the
\* title of the plot; no timeseries is touched
CompareTitle ==
    /\ pc = "cmp_title" /\ status = "running"
    /\ pc' = "cmp_read_file"
    /\ UNCHANGED <<status, args, input, params, parse_errors, obs_data,
                   stations, stamp, log, target_time, front_cases, filtered,
                   written, plotted>>

\* lines 223-225: one station per input file
CompareReadFiles ==
    /\ pc = "cmp_read_file" /\ status = "running"
    /\ stations' = [k \in 1..args.nfiles |-> MkStation(TargetDt, MinSamples)]
    /\ pc' = "cmp_process_for_plotting"
    /\ UNCHANGED <<status, args, input, params, parse_errors, obs_data, stamp,
                   log, target_time, front_cases, filtered, written, plotted>>

\* process_for_plotting, lines 130-161: every station is filtered unless
\* neither --lowf nor --highf was given
CompareFilter ==
    /\ pc = "cmp_process_for_plotting" /\ status = "running"
    /\ filtered' = IF IsNone(args.lowf) /\ IsNone(args.highf) THEN {}
                   ELSE 1..Len(stations)
    /\ pc' = "cmp_comparison_plot"
    /\ UNCHANGED <<status, args, input, params, parse_errors, obs_data,
                   stations, stamp, log, target_time, front_cases, written,
                   plotted>>

\* lines 230-232
ComparePlot ==
    /\ pc = "cmp_comparison_plot" /\ status = "running"
    /\ plotted' = TRUE
    /\ pc' = "done"
    /\ status' = "done"
    /\ UNCHANGED <<args, input, params, parse_errors, obs_data, stations,
                   stamp, log, target_time, front_cases, filtered, written>>

NextCompare ==
    \/ CompareParseArguments
    \/ CompareTitle
    \/ CompareReadFiles
    \/ CompareFilter
    \/ ComparePlot

SpecCompare == InitCompare /\ [][NextCompare]_vars

\* =============================================================== claims
\* ------------------------------------------------- shared vocabulary
Abs(x) == IF x < 0 THEN 0 - x ELSE x
StationOf(k) == IF k = 0 THEN Val(obs_data) ELSE stations[k]
InLog(stage) == \E j \in 1..Len(log) : log[j] = stage
IsPrefix(a, b) == Len(a) <= Len(b) /\ \A j \in 1..Len(a) : a[j] = b[j]
OpsAt(ts, flag) == SelectSeq(ts.ops, LAMBDA o : o[2] = flag)
\* the stamp, the earthquake time and the simulation start, in seconds of day
StartSeconds == stamp[1][1] * 3600 + stamp[1][2] * 60 + stamp[1][3]
EqSeconds ==
    params.eq_time[1][1] * 3600 + params.eq_time[1][2] * 60 + params.eq_time[1][3]
SimStartSeconds == EqSeconds - params.leading[1]
\* synchronize_all_stations has been entered with a stamp and a recorded station
FrontAlignmentRan == InLog("synchronize") /\ HasObs /\ ~IsNone(stamp)
\* synchronize_all_stations has returned
SyncReturned == pc \in {"check_samples", "check_data", "filter", "write", "done"}
\* the sample count of a station before synchronize_all_stations
ResampledSamples(raw) == Round(raw[1] * raw[2], params.targetdt[1])
SameSamplesEverywhere ==
    \A k \in StationIds : \A m \in StationIds : \A i \in Channels : \A j \in Channels :
        StationOf(k)[i].samples = StationOf(m)[j].samples

\* C1: when synchronize_all_stations has returned, every channel of every
\* station (the recorded one included) has the same number of samples.
C1_SamplesEqualOnReturn == SyncReturned => SameSamplesEverywhere

\* C1 witness: the function returned for a recorded and two simulated stations
\* of which one was cut at the front and another at the end.
C1_Witness ==
    /\ pc = "check_samples"
    /\ HasObs /\ Len(stations) = 2
    /\ \E k \in StationIds : \E o \in {StationOf(k)[1].ops[j] :
                                      j \in 1..Len(StationOf(k)[1].ops)} :
            o[2] = "front" /\ o[4] >= 1
    /\ \E k \in StationIds : \E o \in {StationOf(k)[1].ops[j] :
                                      j \in 1..Len(StationOf(k)[1].ops)} :
            o[2] = "end" /\ o[4] >= 1

\* C2 (as claimed): with a stamp and a recorded station and
\* sim_start <= stamp <= eq_time, the front alignment zero-pads every recorded
\* channel at the front by (stamp - sim_start) seconds, leaves every simulated
\* channel alone and goes on to the end alignment.
C2_PadsRecordedInsideWindow ==
    (FrontAlignmentRan
        /\ SimStartSeconds <= StartSeconds /\ StartSeconds <= EqSeconds)
    => /\ pc # "sync_front"
       /\ \A i \in Channels :
            /\ Len(OpsAt(Val(obs_data)[i], "front")) = 1
            /\ OpsAt(Val(obs_data)[i], "front")[1][1] = "pad"
            /\ OpsAt(Val(obs_data)[i], "front")[1][3] = StartSeconds - SimStartSeconds
       /\ \A k \in 1..Len(stations) : \A i \in Channels :
            OpsAt(stations[k][i], "front") = << >>

\* C3 (as claimed): with a stamp and a recorded station and stamp > eq_time,
\* the front alignment zero-pads every recorded channel at the front by
\* (stamp - eq_time) seconds and cuts every simulated channel at the front by
\* (eq_time - sim_start) seconds, once.
C3_PadsRecordedCutsSimulated ==
    (FrontAlignmentRan /\ StartSeconds > EqSeconds)
    => /\ pc # "sync_front"
       /\ \A i \in Channels :
            /\ Len(OpsAt(Val(obs_data)[i], "front")) = 1
            /\ OpsAt(Val(obs_data)[i], "front")[1][1] = "pad"
            /\ OpsAt(Val(obs_data)[i], "front")[1][3] = StartSeconds - EqSeconds
       /\ \A k \in 1..Len(stations) : \A i \in Channels :
            /\ Len(OpsAt(stations[k][i], "front")) = 1
            /\ OpsAt(stations[k][i], "front")[1][1] = "cut"
            /\ OpsAt(stations[k][i], "front")[1][3] = EqSeconds - SimStartSeconds

\* C4: right after the front alignment: with a stamp and a recorded station
\* and stamp < sim_start every recorded channel has been cut at the front by
\* (sim_start - stamp) seconds (the samples that many seconds hold, to within
\* the one sample the truncation may lose) and no simulated channel has been
\* touched; without a stamp or without a recorded station no channel has been
\* touched at all.
C4_CutsRecordedBeforeWindow ==
    (pc = "sync_end")
    => /\ (HasObs /\ ~IsNone(stamp) /\ StartSeconds < SimStartSeconds)
            => /\ \A i \in Channels :
                    LET ts == Val(obs_data)[i]
                    IN  /\ Len(ts.ops) = 1
                        /\ ts.ops[1][1] = "cut" /\ ts.ops[1][2] = "front"
                        /\ ts.ops[1][3] = SimStartSeconds - StartSeconds
                        /\ ts.dt * ts.ops[1][4] <= ts.ops[1][3]
                        /\ ts.ops[1][3] < ts.dt * (ts.ops[1][4] + 2)
                        /\ ts.samples = ResampledSamples(input.obs) - ts.ops[1][4]
               /\ \A k \in 1..Len(stations) : \A i \in Channels :
                    /\ stations[k][i].ops = << >>
                    /\ stations[k][i].samples = ResampledSamples(input.sims[k])
       /\ (~HasObs \/ IsNone(stamp))
            => \A k \in StationIds : \A i \in Channels :
                    /\ StationOf(k)[i].ops = << >>
                    /\ StationOf(k)[i].samples =
                         ResampledSamples(IF k = 0 THEN input.obs ELSE input.sims[k])

\* C4 witness: the recording starts before the simulation and at least one
\* sample has been cut from the front of the recorded channels.
C4_Witness ==
    /\ pc = "sync_end"
    /\ HasObs /\ ~IsNone(stamp) /\ StartSeconds < SimStartSeconds
    /\ \A i \in Channels : Val(obs_data)[i].ops[1][4] >= 1

\* the cuts made at the end of a timeseries
EndCuts(ts) == SelectSeq(ts.ops, LAMBDA o : o[1] = "cut" /\ o[2] = "end")

\* C5: after the end alignment the target duration is attained by a station
\* that was not cut (it is the minimum over the recorded and the simulated
\* stations), every channel that was not cut lasts exactly the target, every
\* channel that was cut was cut once, at the end, by its excess over the
\* target; and when synchronize_all_stations has returned the duration of
\* every channel is within one sample period of the target.
C5_EndAlignedToTarget ==
    /\ (pc = "sync_scale" \/ SyncReturned) => ~IsNone(target_time)
    /\ (pc = "sync_scale")
        => /\ \E k \in StationIds : EndCuts(StationOf(k)[1]) = << >>
           /\ \A k \in StationIds : \A i \in Channels :
                LET ts == StationOf(k)[i]
                    cuts == EndCuts(ts)
                IN  IF cuts = << >> THEN Duration(ts) = target_time[1]
                    ELSE /\ Len(cuts) = 1
                         /\ cuts[1][3] > 0
                         /\ cuts[1][3] = ts.dt * (ts.samples + cuts[1][4])
                                            - target_time[1]
                         /\ ts.dt * cuts[1][4] <= cuts[1][3]
                         /\ cuts[1][3] < ts.dt * (cuts[1][4] + 2)
    /\ SyncReturned
        => \A k \in StationIds : \A i \in Channels :
                Abs(Duration(StationOf(k)[i]) - target_time[1])
                    <= StationOf(k)[i].dt

\* C5 witness: the function returned and the recorded station and a simulated
\* one have lost samples at the end.
C5_Witness ==
    /\ SyncReturned /\ HasObs
    /\ EndCuts(Val(obs_data)[3]) # << >> /\ EndCuts(Val(obs_data)[3])[1][4] >= 1
    /\ \E k \in 1..Len(stations) :
            EndCuts(stations[k][3]) # << >> /\ EndCuts(stations[k][3])[1][4] >= 1

\* the reconciliation step of synchronize_all_stations has run
ScaleRan == SyncReturned \/ (pc = "sync_scale" /\ status # "running")

\* C6 (as claimed): once the reconciliation step has run the function has
\* returned normally and no channel is left one sample short of total_samples:
\* each such channel got one sample appended at its end.
C6_OneShortChannelsPadded ==
    ScaleRan
    => /\ SyncReturned
       /\ \A k \in StationIds : \A i \in Channels :
            /\ StationOf(k)[i].samples # TotalSamples(obs_data, stations) - 1
            /\ \A j \in 1..Len(StationOf(k)[i].ops) :
                 StationOf(k)[i].ops[j][1] = "pad" => StationOf(k)[i].ops[j][4] = 1

\* the stages of process, in order
StageOrder(withObs) ==
    IF withObs
    THEN <<"rotate", "resample", "read_stamp", "synchronize", "check_samples",
           "check_data", "filter">>
    ELSE <<"rotate", "resample", "synchronize", "check_samples", "check_data",
           "filter">>

\* C7: the stages that have run are an initial part of: rotate, resample,
\* read the stamp (exactly when there is recorded data), synchronize, compare
\* the sample counts, validate, filter; and a station is filtered only after
\* every station has passed the validation.
C7_StagesInOrder ==
    /\ IsPrefix(log, StageOrder(HasObs))
    /\ filtered # {}
        => /\ filtered = StationIds
           /\ InLog("check_data")
           /\ \A k \in StationIds : check_station_data(StationOf(k), Corrupt(k))

\* C7 witness: a run with recorded data went through all seven stages.
C7_Witness == pc = "done" /\ HasObs /\ Len(log) = 7 /\ filtered = StationIds

\* C8: output is written only if no fatal condition occurred in process: the
\* sample counts agree, no station holds bad data and there are one or two
\* frequencies; a run ended by sys.exit has written nothing.
C8_NoOutputAfterFatal ==
    /\ status = "SystemExit" => written = {}
    /\ written # {}
        => /\ Len(params.frequencies[1]) \in {1, 2}
           /\ input.corrupt \cap StationIds = {}
           /\ SameSamplesEverywhere

\* C8 witness: process stopped at a fatal condition and nothing was written.
C8_Witness ==
    /\ status = "SystemExit" /\ pc = "filter"
    /\ Len(params.frequencies[1]) = 3
    /\ written = {}

\* C8 witness for the validation: a station with bad data stopped the run.
C8_WitnessBadData ==
    status = "SystemExit" /\ pc = "check_data" /\ input.corrupt # {} /\ written = {}

C10_ParseErrorsAreFatal ==
    parse_errors # {} => (pc = "parse_arguments" /\ status = "SystemExit")

\* every duration handed to seism_cutting or seism_appendzeros at the front
FrontDurations ==
    {StationOf(k)[i].ops[j][3] :
        <<k, i, j>> \in {t \in StationIds \X Channels \X (1..3) :
                            /\ t[3] <= Len(StationOf(t[1])[t[2]].ops)
                            /\ StationOf(t[1])[t[2]].ops[t[3]][2] = "front"}}

C11_WitnessBoundary ==
    /\ FrontAlignmentRan /\ params.leading[1] = 0
    /\ StartSeconds = EqSeconds
    /\ front_cases = <<3>>

\* a range check of compare_timeseries.parse_arguments fails for the command
\* line (defaults: xmin 0.0, xmax 30.0, xfmin 0.1, xfmax 5.0, tmin 0.1, tmax 10)
BadRanges ==
    \/ (IF args.xmin = << >> THEN 0 ELSE args.xmin[1])
         >= (IF args.xmax = << >> THEN 300 ELSE args.xmax[1])
    \/ (IF args.xfmin = << >> THEN 1 ELSE args.xfmin[1])
         >= (IF args.xfmax = << >> THEN 50 ELSE args.xfmax[1])
    \/ (IF args.tmin = << >> THEN 1 ELSE args.tmin[1])
         >= (IF args.tmax = << >> THEN 100 ELSE args.tmax[1])
    \/ (args.lowf # << >> /\ args.highf # << >> /\ args.lowf[1] >= args.highf[1])

\* C12 (as claimed): once parse_arguments has run on a command line with
\* xmin >= xmax, xfmin >= xfmax, tmin >= tmax or lowf >= highf, an [ERROR]
\* message has been printed, the program has ended through sys.exit(-1)
\* inside parse_arguments, and no file has been read, filtered or plotted.
C12_BadRangesExit ==
    (BadRanges /\ ~(pc = "cmp_parse_arguments" /\ status = "running"))
    => /\ parse_errors # {}
       /\ pc = "cmp_parse_arguments"
       /\ status = "SystemExit"
       /\ stations = << >> /\ filtered = {} /\ ~plotted

====
